---- MODULE Spec2Model ----
(***************************************************************************)
(* Model of Car_to_Bicyclist_Succed.py: the fixed-step control loop of     *)
(* main(), the TCP exchange with the external decision process             *)
(* (send_data / receive_data) and the ego actuation (control_ego).          *)
(*                                                                         *)
(* Units.  Doubles on the wire, distances and pedal values are integers in *)
(* tenths (0.3 is 3, 2.5 is 25).  sim_time is counted in steps of 0.05:    *)
(* the variable n is the number of `sim_time += 0.05` executed so far.     *)
(* With IEEE doubles the accumulated sim_time exceeds 2.5 exactly from the *)
(* 51st addition on, so `sim_time > 2.5` is n > 50.                        *)
(*                                                                         *)
(* Specifications.  Spec follows the loop with the network at byte level   *)
(* for a few ticks; SpecRun follows it with whole-message delivery past    *)
(* the engagement time; both end in the finally block of main().  SpecPlot *)
(* follows the telemetry path of the loop (calculate_ttc and the           *)
(* RealTimePlotter) past the capacity of the history.  SpecDecode follows  *)
(* the decode of receive_data for any four values, a NaN included.         *)
(***************************************************************************)
EXTENDS Integers, Sequences, FiniteSets, TLC

(* ------------------------------ bounds -------------------------------- *)

\* loop iterations explored with the byte-level network (Spec)
MaxTick == 3
\* loop iterations explored with whole-message delivery (SpecRun)
MaxRunTick == 52
\* messages the peer sends in one run
MaxReplies == 2
\* times the network hands over a message in pieces in one run
MaxSplits == 1
\* telemetry records the peer keeps unanswered (it drops the oldest beyond that)
MaxPending == 1
\* loop iterations explored on the telemetry path (SpecPlot): past the capacity
\* of the plotter's history
MaxPlotTick == 203

(* ------------------------- program constants -------------------------- *)

\* recv(8): width of one double on the wire
FieldBytes == 8
\* for _ in range(4): fields of one inbound message
NumFields == 4
\* distance < 2.5
CollisionThreshold == 25
\* sim_time > 2.5, in steps of 0.05
EngageSteps == 50
\* max(0.3, ...)
FloorThrottle == 3
\* 0.5 - Deceleration
NominalThrottle == 5
\* control.brake = 1.0
FullBrake == 10
\* RealTimePlotter(max_points=200)
max_points == 200
\* len(self.times) % 5 == 0
PlotEvery == 5
\* min(ttc, 10), in seconds
TtcCap == 10
\* sim_time += 0.05: ticks per second
TicksPerSecond == 20

(* --------------------------- input domains ---------------------------- *)

\* distances the world may report (tenths): below, at and above the threshold
Distances == {20, 25, 400}

\* the code point the model reserves for a double that is not a number
NaN == 1000000

\* 4-field messages the peer may send: [egoCarStop, FCW, Deceleration, AEB]
PeerMessages ==
  { <<0, 0, 0, 10>>, <<6, 4, 3, 0>>, <<0, 0, 15, 0>> }

\* doubles a field of a message may hold when the decode is followed on its own
\* (SpecDecode): negative, zero, below, at and above one half, 1.5, and a NaN
DecodeInputs == {-6, 0, 4, 5, 6, 15, NaN}

\* doubles an 8-byte read that straddles two fields may unpack to
GarbageValues == {0, 15}

\* sizes of the pieces the network may hand to the socket ahead of the rest
SegmentSizes == {3, 12}

\* speeds of the ego and of the cyclist (tenths of m/s) on the telemetry path
Speeds == {0, 50, 100}

\* distance between the two actors when the loop starts (tenths of m)
StartDistance == 400

(* ------------------------------ helpers ------------------------------- *)

Max(a, b) == IF a > b THEN a ELSE b

\* Python 3 round() of a double given in tenths: nearest integer, ties to even
PyRound(x) ==
  LET q == x \div 10
      r == x % 10
  IN  IF r < 5 THEN q
      ELSE IF r > 5 THEN q + 1
      ELSE IF q % 2 = 0 THEN q ELSE q + 1

\* round(x) raises ValueError for a NaN
RoundRaises(x) == x = NaN

\* the decision main() starts with
SafeDefault ==
  [egoCarStop |-> FALSE, FCW_Activate |-> FALSE, Deceleration |-> 0, AEB_Status |-> FALSE]

\* what receive_data returns from `except socket.timeout`
TimeoutDecision_Stop ==
  [egoCarStop |-> TRUE, FCW_Activate |-> FALSE, Deceleration |-> 0, AEB_Status |-> FALSE]

TimeoutDecision ==
  [egoCarStop |-> FALSE, FCW_Activate |-> FALSE, Deceleration |-> 0, AEB_Status |-> FALSE]

ErrorDecision_Partial ==
  [egoCarStop |-> TRUE, FCW_Activate |-> FALSE, Deceleration |-> 0, AEB_Status |-> FALSE]

\* what receive_data returns from `except Exception`
ErrorDecision ==
  [egoCarStop |-> FALSE, FCW_Activate |-> FALSE, Deceleration |-> 0, AEB_Status |-> FALSE]

\* result = {...} built from values[0..3]
Decode(values) ==
  [egoCarStop   |-> PyRound(values[1].v) # 0,
   FCW_Activate |-> PyRound(values[2].v) # 0,
   Deceleration |-> values[3].v,
   AEB_Status   |-> PyRound(values[4].v) # 0]

\* carla.VehicleControl(): every pedal and the steering start at 0
VehicleControl == [throttle |-> 0, brake |-> 0, steer |-> 0]

SimTimeExceeds(steps, limit) == steps > limit

control_ego_NoCollision(sim_time, sd, coll) ==
  IF sd.AEB_Status \/ sd.egoCarStop
    THEN [VehicleControl EXCEPT !.throttle = 0, !.brake = FullBrake]
    ELSE IF SimTimeExceeds(sim_time, EngageSteps)
      THEN [throttle |-> Max(FloorThrottle, NominalThrottle - sd.Deceleration),
            brake |-> sd.Deceleration, steer |-> 0]
      ELSE [VehicleControl EXCEPT !.throttle = 0, !.brake = FullBrake]

control_ego_NoFloor(sim_time, sd, coll) ==
  IF sd.AEB_Status \/ sd.egoCarStop \/ coll
    THEN [VehicleControl EXCEPT !.throttle = 0, !.brake = FullBrake]
    ELSE IF SimTimeExceeds(sim_time, EngageSteps)
      THEN [throttle |-> NominalThrottle - sd.Deceleration,
            brake |-> sd.Deceleration, steer |-> 0]
      ELSE [VehicleControl EXCEPT !.throttle = 0, !.brake = FullBrake]

control_ego(sim_time, sd, coll) ==
  IF sd.AEB_Status \/ sd.egoCarStop \/ coll
    THEN [VehicleControl EXCEPT !.throttle = 0, !.brake = FullBrake]
    ELSE IF SimTimeExceeds(sim_time, EngageSteps)
      THEN [throttle |-> Max(FloorThrottle, NominalThrottle - sd.Deceleration),
            brake |-> sd.Deceleration, steer |-> 0]
      ELSE [VehicleControl EXCEPT !.throttle = 0, !.brake = FullBrake]

UpdateCollision_NoLatch(d, coll) == d < CollisionThreshold

\* if distance < 2.5 and not collision: collision = True
UpdateCollision(d, coll) == IF d < CollisionThreshold /\ ~coll THEN TRUE ELSE coll

\* the quotient a / b of two doubles, kept exact as a fraction (b >= 0)
Quot(a, b) == [num |-> a, den |-> b]

\* float('inf')
Inf == Quot(1, 0)

calculate_ttc_Strict(distance, relative_velocity) ==
  IF relative_velocity < 0 THEN Inf ELSE Quot(distance, relative_velocity)

\* if relative_velocity <= 0: return float('inf'); return distance / relative_velocity
calculate_ttc(distance, relative_velocity) ==
  IF relative_velocity <= 0 THEN Inf ELSE Quot(distance, relative_velocity)

\* min(ttc, 10)
MinCap(q) ==
  IF q.den = 0 \/ TtcCap * q.den < q.num THEN Quot(TtcCap, 1) ELSE q

\* the distance the world reports at tick k while the actors close at the
\* constant speed rv (tenths of m/s), from StartDistance on
DistanceAt(k, rv) == Max(0, StartDistance - (k * rv) \div TicksPerSecond)

dequeAppend_NoEvict(q, x) == IF Len(q) < max_points THEN Append(q, x) ELSE q

\* deque(maxlen=max_points).append(x): a full deque drops its oldest element
dequeAppend(q, x) == IF Len(q) < max_points THEN Append(q, x) ELSE Append(Tail(q), x)

\* RealTimePlotter(): the five empty series; plotting_enabled is True unless
\* plt.subplots or plt.show raised
RealTimePlotter(enabled) ==
  [plotting_enabled |-> enabled, times |-> << >>, distances |-> << >>,
   ttc_values |-> << >>, ego_speeds |-> << >>, cyclist_speeds |-> << >>]

\* RealTimePlotter.update; drawOk is whether _update_plots, when it is called,
\* draws without an exception
update(p, time_val, d, t, ego_v, cyclist_v, drawOk) ==
  IF ~p.plotting_enabled
    THEN p
    ELSE LET q == [p EXCEPT !.times = dequeAppend(@, time_val),
                            !.distances = dequeAppend(@, d),
                            !.ttc_values = dequeAppend(@, MinCap(t)),
                            !.ego_speeds = dequeAppend(@, ego_v),
                            !.cyclist_speeds = dequeAppend(@, cyclist_v)]
         IN  IF Len(q.times) % PlotEvery = 0 /\ ~drawOk
               THEN [q EXCEPT !.plotting_enabled = FALSE]
               ELSE q

\* the outcomes of the redraw in one call of update: a plotter that is not
\* enabled draws nothing
DrawOutcomes(p) == IF p.plotting_enabled THEN BOOLEAN ELSE {TRUE}

(* ------------------------------- state -------------------------------- *)

VARIABLES
  pc,          \* position of main(): "poll", "recv", "act", "render", then "finally",
               \* "closeSock", "destroy", "pygameQuit", "pltClose", "done"
  n,           \* number of sim_time += 0.05 executed
  distance,    \* distance measured in the current tick
  collision,   \* the collision flag of main()
  sim_data,    \* the decision main() holds
  conn,        \* what setup_tcp_server returned: "Connection" or "None"
  link,        \* the TCP connection: "up", "eof" (peer closed), "reset"
  txq,         \* telemetry the peer has received and not answered: "cur" (sent in
               \* the current tick) or "old" (sent in an earlier tick), oldest first
  wire,        \* fields the peer has sent and receive_data has not consumed
  rxOff,       \* bytes of the first field of wire already consumed
  avail,       \* bytes of wire that have reached the socket's receive buffer
  rcv,         \* the running receive_data call: loop index, values, bytes read
  rx,          \* how the current tick's exchange ended: "none", "ok", "sendfail",
               \* "timeout", "short", "reset", "invalid"
  ctrl,        \* the command returned by control_ego in the current tick
  ctrlColl,    \* the collision argument of that control_ego call
  applied,     \* ego.apply_control(ctrl) has run in the current tick
  closeSeen,   \* some tick so far (the current one included) measured < 2.5
  lastDecoded, \* the most recent decision built from 4 received values
  everDecoded, \* whether there is one
  lateDecode,  \* it was decoded after the peer had closed the connection
  sdSrc,       \* the telemetry ("cur", "old") answered by the fields this tick's
               \* decision was decoded from; empty when it was not decoded
  replies,     \* messages the peer has sent
  splits,      \* pieces the network has handed over ahead of the rest
  cause,       \* why the loop was left
  leftAt,      \* the position of main() when the loop was left
  cleaned,     \* the cleanup steps the finally block has started, in order
  plotter,     \* the RealTimePlotter: plotting_enabled and its five series
  ego_speed,   \* get_speed(ego)
  cyclist_speed, \* get_speed(cyclist)
  ttc,         \* the time-to-collision computed in the current tick
  horizon      \* number of loop iterations the run is followed for

vars ==
  << pc, n, distance, collision, sim_data, conn, link, txq, wire, rxOff, avail,
     rcv, rx, ctrl, ctrlColl, applied, closeSeen, lastDecoded, everDecoded, lateDecode,
     sdSrc, replies, splits, cause, leftAt, cleaned, plotter, ego_speed,
     cyclist_speed, ttc, horizon >>

\* groups of variables, for the UNCHANGED clauses
egoVars == << n, distance, collision, closeSeen >>

decVars == << sim_data, rx, lastDecoded, everDecoded, lateDecode, sdSrc >>

outVars == << ctrl, ctrlColl, applied >>

netVars == << link, txq, wire, rxOff, avail, replies, splits >>

endVars == << cause, leftAt, cleaned >>

teleVars == << ego_speed, cyclist_speed, ttc >>

\* receive_data before its first recv: off0 is rxOff at the time of the call
RcvStart(off) == [i |-> 0, values |-> << >>, bytes |-> 0, short |-> FALSE, off0 |-> off]

RcvIdle == RcvStart(0)

\* bytes the peer has written that the socket has not yet handed to recv
InFlight == FieldBytes * Len(wire) - rxOff - avail

InitLoop ==
  /\ pc = "poll"
  /\ n = 0
  /\ distance = 0
  /\ collision = FALSE
  /\ sim_data = SafeDefault
  /\ conn \in {"Connection", "None"}
  /\ link = "up"
  /\ txq = << >>
  /\ wire = << >>
  /\ rxOff = 0
  /\ avail = 0
  /\ rcv = RcvIdle
  /\ rx = "none"
  /\ ctrl = VehicleControl
  /\ ctrlColl = FALSE
  /\ applied = FALSE
  /\ closeSeen = FALSE
  /\ lastDecoded = SafeDefault
  /\ everDecoded = FALSE
  /\ lateDecode = FALSE
  /\ sdSrc = {}
  /\ replies = 0
  /\ splits = 0
  /\ cause = "none"
  /\ leftAt = "none"
  /\ cleaned = << >>

\* a run without live plots (plt.subplots raised in RealTimePlotter()): the
\* plotter records nothing, and nothing else in the loop reads the speeds or ttc
NoTelemetry ==
  /\ plotter = RealTimePlotter(FALSE)
  /\ ego_speed = 0
  /\ cyclist_speed = 0
  /\ ttc = Inf

\* the state main() enters its while loop in
Init == InitLoop /\ NoTelemetry /\ horizon = MaxTick

InitRun == InitLoop /\ NoTelemetry /\ horizon = MaxRunTick

\* the same state, for the telemetry path: both outcomes of RealTimePlotter()
\* and every pair of speeds
InitPlot ==
  /\ InitLoop
  /\ conn = "None"
  /\ plotter \in {RealTimePlotter(TRUE), RealTimePlotter(FALSE)}
  /\ ego_speed \in Speeds
  /\ cyclist_speed \in Speeds
  /\ ttc = Inf
  /\ horizon = MaxPlotTick

(* ------------------------ the loop of main() -------------------------- *)

\* replies and telemetry of earlier ticks are "old" once a new tick starts
Aged(q) == [k \in 1..Len(q) |-> "old"]

AgedWire(w) == [k \in 1..Len(w) |-> [w[k] EXCEPT !.t = "old"]]

\* world.tick(); sim_time += 0.05
TickCommon ==
  /\ pc = "poll"
  /\ n < horizon
  /\ n' = n + 1
  /\ wire' = AgedWire(wire)
  /\ UNCHANGED << distance, collision, closeSeen, conn, rxOff, avail, replies, splits,
                  lastDecoded, everDecoded, lateDecode, outVars, sdSrc, endVars, horizon, plotter, teleVars >>

\* control leaves the while loop for the finally block of main(), which reads
\* conn, sock and world only: the exchange with the peer is over, and the
\* decision and the locals of the interrupted tick are not read again
LeaveLoop(why) ==
  /\ pc' = "finally"
  /\ cause' = why
  /\ leftAt' = pc
  /\ txq' = << >>
  /\ wire' = << >>
  /\ rxOff' = 0
  /\ avail' = 0
  /\ replies' = 0
  /\ splits' = 0
  /\ sim_data' = SafeDefault
  /\ rx' = "none"
  /\ lastDecoded' = SafeDefault
  /\ everDecoded' = FALSE
  /\ lateDecode' = FALSE
  /\ sdSrc' = {}
  /\ ctrl' = VehicleControl
  /\ ctrlColl' = FALSE
  /\ applied' = FALSE
  /\ rcv' = RcvStart(0)
  /\ UNCHANGED << egoVars, conn, link, cleaned, horizon, plotter, teleVars >>

\* for e in pygame.event.get(): if e.type == pygame.QUIT: return
PollQuit ==
  /\ pc = "poll"
  /\ LeaveLoop("quit")

\* world.tick() raises: caught by `except Exception` of main()
WorldTickFail ==
  /\ pc = "poll"
  /\ n < horizon
  /\ LeaveLoop("world")

\* Ctrl-C: KeyboardInterrupt is raised wherever main() is, passes every
\* `except Exception` and is caught by `except KeyboardInterrupt` of main().
\* Inside receive_data it is taken in the first recv: main() discards what the
\* call has read, so a later recv leads to the same state
Interrupt ==
  /\ pc \in {"poll", "recv", "act", "render"}
  /\ pc = "recv" => rcv.i = 0
  /\ LeaveLoop("interrupt")

TickNoConn_Exchange ==
  /\ TickCommon
  /\ conn = "None"
  /\ rx' = "sendfail"
  /\ pc' = "act"
  /\ UNCHANGED << sim_data, link, txq, rcv >>

\* a tick with conn = None: `if conn:` skips the exchange
TickNoConn ==
  /\ TickCommon
  /\ conn = "None"
  /\ rx' = "none"
  /\ pc' = "act"
  /\ UNCHANGED << sim_data, link, txq, rcv >>

\* a tick whose send_data succeeds: main() enters receive_data
TickSendOk ==
  /\ TickCommon
  /\ conn = "Connection"
  /\ link \in {"up", "eof"}
  /\ IF link = "up"
       THEN /\ txq' = Aged(IF Len(txq) < MaxPending THEN txq ELSE Tail(txq)) \o << "cur" >>
            /\ link' = link
       ELSE /\ txq' = txq
            /\ link' \in {"eof", "reset"}
  /\ rcv' = RcvStart(rxOff)
  /\ rx' = "none"
  /\ pc' = "recv"
  /\ UNCHANGED sim_data

\* a tick whose send_data raises: `except Exception` of the loop keeps sim_data
TickSendFail ==
  /\ TickCommon
  /\ conn = "Connection"
  /\ link = "reset"
  /\ rx' = "sendfail"
  /\ pc' = "act"
  /\ UNCHANGED << sim_data, link, txq, rcv >>

(* --------------------------- receive_data ----------------------------- *)

\* conn.recv(8) returns 8 bytes: values.append(struct.unpack('d', data)[0])
RecvFull ==
  /\ pc = "recv"
  /\ rcv.i < NumFields
  /\ avail >= FieldBytes
  /\ \E val \in (IF rxOff = 0
                   THEN {Head(wire)}
                   ELSE {[v |-> g, t |-> Head(wire).t, f |-> 0] : g \in GarbageValues}) :
        rcv' = [rcv EXCEPT !.i = @ + 1, !.values = Append(@, val), !.bytes = @ + FieldBytes]
  /\ wire' = Tail(wire)
  /\ avail' = avail - FieldBytes
  /\ UNCHANGED << pc, egoVars, decVars, outVars, conn, endVars, horizon, plotter, teleVars,
                  link, txq, rxOff, replies, splits >>

\* conn.recv(8) returns 1..7 bytes: sleep and `continue`
RecvShort ==
  /\ pc = "recv"
  /\ rcv.i < NumFields
  /\ avail > 0
  /\ avail < FieldBytes
  /\ rcv' = [rcv EXCEPT !.i = @ + 1, !.bytes = @ + avail, !.short = TRUE]
  /\ IF rxOff + avail >= FieldBytes
       THEN /\ wire' = Tail(wire)
            /\ rxOff' = rxOff + avail - FieldBytes
       ELSE /\ wire' = wire
            /\ rxOff' = rxOff + avail
  /\ avail' = 0
  /\ UNCHANGED << pc, egoVars, decVars, outVars, conn, endVars, horizon, plotter, teleVars, link, txq, replies, splits >>

\* conn.recv(8) returns b'' (the peer has closed): sleep and `continue`
RecvEOF ==
  /\ pc = "recv"
  /\ rcv.i < NumFields
  /\ avail = 0
  /\ InFlight = 0
  /\ link = "eof"
  /\ rcv' = [rcv EXCEPT !.i = @ + 1, !.short = TRUE]
  /\ UNCHANGED << pc, egoVars, decVars, outVars, netVars, conn, endVars, horizon, plotter, teleVars >>

\* receive_data returns `result` to main(), which assigns it to sim_data
RecvReturn(result, how) ==
  /\ sim_data' = result
  /\ rx' = how
  /\ pc' = "act"
  /\ UNCHANGED << egoVars, outVars, netVars, conn, rcv, endVars, horizon, plotter, teleVars >>

\* conn.recv(8) raises socket.timeout: return the default
RecvTimeout ==
  /\ pc = "recv"
  /\ rcv.i < NumFields
  /\ avail = 0
  /\ link = "up" \/ InFlight > 0
  /\ RecvReturn(TimeoutDecision, "timeout")
  /\ UNCHANGED << lastDecoded, everDecoded, lateDecode, sdSrc >>

\* conn.recv(8) raises ConnectionResetError: `except Exception` returns the default
RecvReset ==
  /\ pc = "recv"
  /\ rcv.i < NumFields
  /\ avail = 0
  /\ link = "reset"
  /\ RecvReturn(ErrorDecision, "reset")
  /\ UNCHANGED << lastDecoded, everDecoded, lateDecode, sdSrc >>

\* round() of one of the three boolean fields raises
DecodeRaises(values) == \E k \in {1, 2, 4} : RoundRaises(values[k].v)

\* after the loop: with 4 values the decision is decoded and returned
RecvDecode ==
  /\ pc = "recv"
  /\ rcv.i = NumFields
  /\ Len(rcv.values) = NumFields
  /\ ~DecodeRaises(rcv.values)
  /\ RecvReturn(Decode(rcv.values), "ok")
  /\ lastDecoded' = Decode(rcv.values)
  /\ everDecoded' = TRUE
  /\ lateDecode' = (link # "up")
  /\ sdSrc' = {rcv.values[k].t : k \in 1..NumFields}

\* after the loop: with 4 values of which a boolean field is a NaN, round()
\* raises ValueError: `except Exception` returns the default
RecvValueError ==
  /\ pc = "recv"
  /\ rcv.i = NumFields
  /\ Len(rcv.values) = NumFields
  /\ DecodeRaises(rcv.values)
  /\ RecvReturn(ErrorDecision, "invalid")
  /\ UNCHANGED << lastDecoded, everDecoded, lateDecode, sdSrc >>

\* after the loop: with fewer values, values[k] raises IndexError: the default
RecvIndexError ==
  /\ pc = "recv"
  /\ rcv.i = NumFields
  /\ Len(rcv.values) < NumFields
  /\ RecvReturn(ErrorDecision, "short")
  /\ UNCHANGED << lastDecoded, everDecoded, lateDecode, sdSrc >>

(* ------------------- actuation and the rest of a tick ----------------- *)

\* ctrl = control_ego(...); ego.apply_control(ctrl); the collision test.
\* d is the distance this tick measured after world.tick(): nothing the model
\* keeps depends on it before this point, so it is drawn here
Actuate(d) ==
  /\ pc = "act"
  /\ distance' = d
  /\ closeSeen' = (closeSeen \/ d < CollisionThreshold)
  /\ ctrl' = control_ego(n, sim_data, collision)
  /\ ctrlColl' = collision
  /\ applied' = TRUE
  /\ collision' = UpdateCollision(d, collision)
  /\ pc' = "render"
  /\ UNCHANGED << n, decVars, netVars, conn, rcv, endVars, horizon, plotter, teleVars >>

\* the values a tick computes are not read again once its iteration has ended
TickLocalsDead ==
  /\ distance' = 0
  /\ ctrl' = VehicleControl
  /\ ctrlColl' = FALSE
  /\ applied' = FALSE
  /\ rx' = "none"
  /\ sdSrc' = {}
  /\ rcv' = RcvIdle
  /\ UNCHANGED << n, collision, closeSeen, sim_data, lastDecoded, everDecoded, lateDecode >>

\* plotter.update, the HUD, the camera and clock.tick(20) all return: next iteration
RenderOk ==
  /\ pc = "render"
  /\ pc' = "poll"
  /\ \E drawOk \in DrawOutcomes(plotter) :
        plotter' = update(plotter, n, distance, ttc, ego_speed, cyclist_speed, drawOk)
  /\ TickLocalsDead
  /\ UNCHANGED << netVars, conn, endVars, horizon, teleVars >>

\* a pygame call of the HUD raises: caught by `except Exception` of main()
RenderHudFail ==
  /\ pc = "render"
  /\ LeaveLoop("hud")

\* a world/actor call of the camera raises: caught by `except Exception` of main()
RenderCameraFail ==
  /\ pc = "render"
  /\ LeaveLoop("world")

(* ------------------------- the finally block -------------------------- *)

\* one cleanup call of the finally block is made; ok is whether it returns
CleanupStep(name, okTo, failTo, ok) ==
  /\ cleaned' = Append(cleaned, name)
  /\ pc' = IF ok THEN okTo ELSE failTo
  /\ UNCHANGED << egoVars, decVars, outVars, conn, rcv, cause, leftAt, horizon, plotter,
                  teleVars, txq, wire, rxOff, avail, replies, splits >>

\* if conn: conn.close() -- an exception leaves the first try block
CloseConn(ok) ==
  /\ pc = "finally"
  /\ conn = "Connection"
  /\ link' = IF ok THEN "closed" ELSE link
  /\ CleanupStep("conn", "closeSock", "pygameQuit", ok)

\* conn is None, and so is sock: both `if` are skipped
SkipClose ==
  /\ pc = "finally"
  /\ conn = "None"
  /\ pc' = "destroy"
  /\ UNCHANGED << egoVars, decVars, outVars, netVars, conn, rcv, endVars, horizon,
                  plotter, teleVars >>

\* if sock: sock.close() -- an exception leaves the first try block
CloseSock(ok) ==
  /\ pc = "closeSock"
  /\ CleanupStep("sock", "destroy", "pygameQuit", ok)
  /\ UNCHANGED link

\* if world: for actor in ...: actor.destroy() -- the end of the first try block
DestroyActors(ok) ==
  /\ pc = "destroy"
  /\ CleanupStep("actors", "pygameQuit", "pygameQuit", ok)
  /\ UNCHANGED link

\* try: pygame.quit() except: pass
PygameQuit(ok) ==
  /\ pc = "pygameQuit"
  /\ CleanupStep("pygame", "pltClose", "pltClose", ok)
  /\ UNCHANGED link

\* try: plt.close('all') except: pass
PltClose(ok) ==
  /\ pc = "pltClose"
  /\ CleanupStep("plt", "done", "done", ok)
  /\ UNCHANGED link

\* the finally block of main()
Teardown ==
  \E ok \in BOOLEAN :
    \/ CloseConn(ok)
    \/ SkipClose
    \/ CloseSock(ok)
    \/ DestroyActors(ok)
    \/ PygameQuit(ok)
    \/ PltClose(ok)

(* ------------------------ the peer and the network -------------------- *)

\* the ego is between ticks or inside receive_data
EnvMayAct == pc \in {"poll", "recv"} /\ conn = "Connection"

\* the peer acts between two ticks or while receive_data waits in its first recv
PeerMayAct == EnvMayAct /\ (pc = "recv" => rcv.i = 0)

Tagged(m, t) == [k \in 1..NumFields |-> [v |-> m[k], t |-> t, f |-> k]]

\* the peer answers the oldest telemetry it has not answered with one whole message
PeerReply(m) ==
  /\ PeerMayAct
  /\ link = "up"
  /\ txq # << >>
  /\ replies < MaxReplies
  /\ replies' = replies + 1
  /\ wire' = wire \o Tagged(m, Head(txq))
  /\ txq' = Tail(txq)
  /\ UNCHANGED << pc, egoVars, decVars, outVars, conn, rcv, endVars, horizon, plotter, teleVars, link, rxOff, avail, splits >>

\* the peer closes its end of the connection
PeerClose ==
  /\ PeerMayAct
  /\ link = "up"
  /\ link' = "eof"
  /\ txq' = << >>
  /\ UNCHANGED << pc, egoVars, decVars, outVars, conn, rcv, endVars, horizon, plotter, teleVars,
                  wire, rxOff, avail, replies, splits >>

\* all the bytes in flight reach the socket's receive buffer
DeliverAll ==
  /\ EnvMayAct
  /\ InFlight > 0
  /\ avail' = avail + InFlight
  /\ UNCHANGED << pc, egoVars, decVars, outVars, conn, rcv, endVars, horizon, plotter, teleVars,
                  link, txq, wire, rxOff, replies, splits >>

\* a piece of the bytes in flight reaches an empty receive buffer ahead of the rest
DeliverPiece(k) ==
  /\ EnvMayAct
  /\ avail = 0
  /\ k < InFlight
  /\ splits < MaxSplits
  /\ splits' = splits + 1
  /\ avail' = k
  /\ UNCHANGED << pc, egoVars, decVars, outVars, conn, rcv, endVars, horizon, plotter, teleVars,
                  link, txq, wire, rxOff, replies >>

Next ==
  \/ PollQuit
  \/ WorldTickFail
  \/ Interrupt
  \/ TickNoConn
  \/ TickSendOk
  \/ TickSendFail
  \/ RecvFull
  \/ RecvShort
  \/ RecvEOF
  \/ RecvTimeout
  \/ RecvReset
  \/ RecvDecode
  \/ RecvIndexError
  \/ \E d \in Distances : Actuate(d)
  \/ RenderOk
  \/ RenderHudFail
  \/ RenderCameraFail
  \/ Teardown
  \/ \E m \in PeerMessages : PeerReply(m)
  \/ PeerClose
  \/ DeliverAll
  \/ \E k \in SegmentSizes : DeliverPiece(k)

Spec == Init /\ [][Next]_vars

\* the loop when TCP hands every peer message to the socket in one piece
NextRun ==
  \/ PollQuit
  \/ WorldTickFail
  \/ Interrupt
  \/ TickNoConn
  \/ TickSendOk
  \/ TickSendFail
  \/ RecvFull
  \/ RecvEOF
  \/ RecvTimeout
  \/ RecvReset
  \/ RecvDecode
  \/ RecvIndexError
  \/ \E d \in Distances : Actuate(d)
  \/ RenderOk
  \/ RenderHudFail
  \/ RenderCameraFail
  \/ Teardown
  \/ \E m \in PeerMessages : PeerReply(m)
  \/ PeerClose
  \/ DeliverAll

SpecRun == InitRun /\ [][NextRun]_vars

(* ----------------------------- the decode ----------------------------- *)

\* receive_data of the first tick after its four reads, each of which returned
\* 8 bytes: values holds any four doubles of DecodeInputs
InitDecode ==
  /\ pc = "recv"
  /\ n = 1
  /\ conn = "Connection"
  /\ \E m \in [1..NumFields -> DecodeInputs] :
        rcv = [RcvStart(0) EXCEPT !.i = NumFields, !.values = Tagged(m, "cur"),
                                  !.bytes = NumFields * FieldBytes]
  /\ distance = 0
  /\ collision = FALSE
  /\ closeSeen = FALSE
  /\ sim_data = SafeDefault
  /\ rx = "none"
  /\ lastDecoded = SafeDefault
  /\ everDecoded = FALSE
  /\ lateDecode = FALSE
  /\ sdSrc = {}
  /\ ctrl = VehicleControl
  /\ ctrlColl = FALSE
  /\ applied = FALSE
  /\ link = "up"
  /\ txq = << >>
  /\ wire = << >>
  /\ rxOff = 0
  /\ avail = 0
  /\ replies = 1
  /\ splits = 0
  /\ cause = "none"
  /\ leftAt = "none"
  /\ cleaned = << >>
  /\ NoTelemetry
  /\ horizon = MaxTick

\* the code after the loop of receive_data: the decision, or the default when
\* round() raises
NextDecode ==
  \/ RecvDecode
  \/ RecvValueError

SpecDecode == InitDecode /\ [][NextDecode]_vars

(* ------------------------- the telemetry path ------------------------- *)

\* what one iteration does for the plots: world.tick(), sim_time += 0.05, the
\* distance and the speeds, ttc = calculate_ttc(...), plotter.update(...)
PlotTick(drawOk) ==
  /\ pc = "poll"
  /\ n < horizon
  /\ n' = n + 1
  /\ distance' = DistanceAt(n + 1, ego_speed - cyclist_speed)
  /\ ttc' = calculate_ttc(distance', ego_speed - cyclist_speed)
  /\ plotter' = update(plotter, n + 1, distance', ttc', ego_speed, cyclist_speed, drawOk)
  /\ UNCHANGED << pc, collision, closeSeen, decVars, outVars, netVars, conn, rcv, endVars,
                  horizon, ego_speed, cyclist_speed >>

NextPlot == \E drawOk \in DrawOutcomes(plotter) : PlotTick(drawOk)

SpecPlot == InitPlot /\ [][NextPlot]_vars

(* ---------------------------- properties ------------------------------ *)

\* full brake, zero throttle, zero steer
BrakeCommand == [throttle |-> 0, brake |-> FullBrake, steer |-> 0]

\* the exchange of the current tick failed in the transport or the codec
TransportFailed == rx \in {"sendfail", "timeout", "short", "reset", "invalid"}

\* C1: whenever control_ego is called with AEB_Status true, or egoCarStop true, or
\* the collision flag true, the command it returns is throttle 0, brake 1, steer 0,
\* whatever the elapsed time and the deceleration.
C1_SafetyOverride ==
  applied /\ (sim_data.AEB_Status \/ sim_data.egoCarStop \/ ctrlColl) => ctrl = BrakeCommand

\* C1 witness: past the engagement time, with a nonzero deceleration and neither
\* AEB nor stop, control_ego was called with the collision flag set.
C1_Witness ==
  /\ applied
  /\ n > EngageSteps
  /\ ctrlColl
  /\ ~sim_data.AEB_Status
  /\ ~sim_data.egoCarStop
  /\ sim_data.Deceleration # 0

\* C2: from the first tick that measures a distance below 2.5 on (that tick
\* included), the command applied to the ego is brake 1 and throttle 0.
C2_BrakeFromFirstCloseTick ==
  applied /\ closeSeen => ctrl.brake = FullBrake /\ ctrl.throttle = 0

\* C3: when the receive of a tick times out or yields a short payload after a
\* decision was decoded in an earlier tick, the decision used in that tick is the
\* most recently decoded one.
C3_KeepLastOnFailure ==
  applied /\ rx \in {"timeout", "short"} /\ everDecoded => sim_data = lastDecoded

\* C4: after the peer has disconnected, in every tick whose send fails, or whose
\* send succeeds and whose receive reads zero bytes, the decision used equals the
\* last decision decoded before the disconnect.
C4_KeepLastAfterDisconnect ==
  /\ applied
  /\ link \in {"eof", "reset"}
  /\ everDecoded
  /\ ~lateDecode
  /\ rx = "sendfail" \/ (rx = "short" /\ rcv.bytes = 0)
  => sim_data = lastDecoded

\* C5: the decision applied in tick N is decoded from the peer's reply to the
\* telemetry sent in tick N, or it is the fallback; it is never decoded from a
\* reply to the telemetry of an earlier tick.
C5_ReplyToSameTick ==
  applied => sdSrc \subseteq {"cur"}

\* C6: the collision flag starts false, becomes true in a tick whose measured
\* distance is below 2.5 (when that tick reaches its collision test), and is
\* never reset once it is true.
C6_CollisionLatch ==
  /\ ~collision
  /\ [][ /\ collision => collision'
         /\ ~collision /\ collision' => distance' < CollisionThreshold
         /\ pc = "act" /\ pc' = "render" /\ distance' < CollisionThreshold => collision' ]_vars

\* C6 witness: the flag is still set after a later tick measured a distance that is
\* not below 2.5.
C6_Witness ==
  applied /\ ctrlColl /\ collision /\ distance >= CollisionThreshold

\* C7: when a receive times out and no decision was decoded before, the decision
\* used is the safe default, and while the elapsed time does not exceed 2.5 the
\* command has throttle 0 and brake 1.
C7_TimeoutDefault ==
  applied /\ rx = "timeout" /\ ~everDecoded
  => /\ sim_data = SafeDefault
     /\ n <= EngageSteps => ctrl.throttle = 0 /\ ctrl.brake = FullBrake

\* C7 witness: such a timeout in the last tick before engagement, with no
\* collision, so that the command is the pre-engagement hold.
C7_Witness ==
  applied /\ rx = "timeout" /\ ~everDecoded /\ n = EngageSteps /\ ~ctrlColl

\* C8: a tick whose transport or codec fails still applies a command, and the loop
\* is left for teardown only by an explicit quit (the window's quit event or
\* Ctrl-C) or a world-step/actor failure.
C8_OnlyQuitOrWorldEndsRun ==
  /\ TransportFailed /\ pc = "render" => applied
  /\ cause \in {"none", "quit", "interrupt", "world"}

\* C9: every command applied to the ego has throttle in [0,1], brake in [0,1] and
\* steer in [-1,1], also for a decoded deceleration outside [0,1].
C9_CommandInRange ==
  applied => /\ ctrl.throttle \in 0..FullBrake
             /\ ctrl.brake \in 0..FullBrake
             /\ ctrl.steer \in (-FullBrake)..FullBrake

\* C10: when a read returns fewer than 8 bytes, receive_data retries, and it
\* returns the decoded decision when the retried reads deliver all 4 fields: a
\* call that starts on a field boundary and ends with 32 bytes received or
\* waiting in the socket does not end with the default.
C10_RetryShortRead ==
  /\ pc \in {"act", "render"}
  /\ rcv.short
  /\ rcv.off0 = 0
  /\ rcv.i = NumFields
  /\ rcv.bytes + avail >= NumFields * FieldBytes
  => rx = "ok"

\* the cleanup calls of a complete teardown, in order; without a connection
\* there is no socket and no listener to close
ExpectedCleanup ==
  IF conn = "Connection"
    THEN << "conn", "sock", "actors", "pygame", "plt" >>
    ELSE << "actors", "pygame", "plt" >>

\* C11: teardown closes the connection, closes the listener, destroys the actors
\* and releases the display and the plots, in this order, and a cleanup step that
\* raises does not keep a later step from being executed.
C11_GuardedTeardown ==
  pc = "done" => cleaned = ExpectedCleanup

\* C12: a failure of the HUD or of the plotter never ends the control loop: the
\* loop is never left because a display call raised.
C12_DisplayFailureContained ==
  cause # "hud"

\* C13: a quit is acted on only at the poll that starts a tick, before the world
\* step: a quit raised during a tick does not interrupt that tick.
C13_QuitOnlyBetweenTicks ==
  cause \in {"quit", "interrupt"} => leftAt = "poll"

\* C14: without a peer no send or receive is attempted, the decision stays the
\* safe default and every command is derived from it, from the first tick on.
C14_NoPeerRunsOnDefault ==
  conn = "None" =>
    /\ pc # "recv"
    /\ rx = "none"
    /\ txq = << >> /\ wire = << >>
    /\ sim_data = SafeDefault
    /\ applied =>
         ctrl = IF ctrlColl \/ n <= EngageSteps
                  THEN BrakeCommand
                  ELSE [throttle |-> NominalThrottle, brake |-> 0, steer |-> 0]

\* C14 witness: without a peer, past the engagement time, the ego is driven at
\* the nominal throttle of the default decision.
C14_Witness ==
  conn = "None" /\ applied /\ n > EngageSteps /\ ctrl.throttle = NominalThrottle

\* C15: calculate_ttc returns +infinity for every relative velocity <= 0 and
\* distance / relative velocity for every relative velocity > 0.
C15_TtcDefinition ==
  n > 0 =>
    IF ego_speed - cyclist_speed <= 0
      THEN ttc = Inf
      ELSE /\ ttc.den > 0
           /\ ttc.num * (ego_speed - cyclist_speed) = distance * ttc.den

\* C15 witness: a tick in which the relative velocity is exactly zero.
C15_Witness ==
  n > 0 /\ ego_speed = cyclist_speed /\ ego_speed > 0 /\ ttc = Inf

\* the flag decoded from the double v (tenths) is "its nearest integer is
\* nonzero"; a tie between two integers is left to the rounding rule
NearestNonzero(v, flag) ==
  /\ (v > 5 \/ v < -5) => flag
  /\ (v < 5 /\ v > -5) => ~flag

\* C16: a call that has read four complete values returns the decision decoded
\* from them: the three flags are "nearest integer nonzero" of values 0, 1 and 3,
\* the deceleration is value 2 unchanged, and no value is rejected.
C16_DecodeRoundsNeverRejects ==
  pc \in {"act", "render"} /\ rcv.i = NumFields /\ Len(rcv.values) = NumFields =>
    /\ sim_data.Deceleration = rcv.values[3].v
    /\ ~RoundRaises(rcv.values[1].v) => NearestNonzero(rcv.values[1].v, sim_data.egoCarStop)
    /\ ~RoundRaises(rcv.values[2].v) => NearestNonzero(rcv.values[2].v, sim_data.FCW_Activate)
    /\ ~RoundRaises(rcv.values[4].v) => NearestNonzero(rcv.values[4].v, sim_data.AEB_Status)

\* the number of samples the history holds after n calls of update
HistoryLen == IF n < max_points THEN n ELSE max_points

\* C17: while plotting is enabled, after n calls of update each of the five
\* series holds the samples of the last min(n, 200) calls in call order, and the
\* five series have the same length.
C17_HistoryIsLastSamples ==
  plotter.plotting_enabled =>
    LET L == HistoryLen
        rv == ego_speed - cyclist_speed
        at(k) == n - L + k
    IN  /\ plotter.times = [k \in 1..L |-> at(k)]
        /\ plotter.distances = [k \in 1..L |-> DistanceAt(at(k), rv)]
        /\ \A k \in 1..L :
             LET t == plotter.ttc_values[k]
                 d == DistanceAt(at(k), rv)
             IN  IF rv <= 0 \/ d > TtcCap * rv
                   THEN t = Quot(TtcCap, 1)
                   ELSE t = Quot(d, rv)
        /\ plotter.ego_speeds = [k \in 1..L |-> ego_speed]
        /\ plotter.cyclist_speeds = [k \in 1..L |-> cyclist_speed]
        /\ Len(plotter.ttc_values) = L

\* C17 witness: more than 200 calls were recorded and the oldest were evicted.
C17_Witness ==
  /\ plotter.plotting_enabled
  /\ n > max_points
  /\ Len(plotter.times) = max_points
  /\ Head(plotter.times) = n - max_points + 1
  /\ Head(plotter.distances) # plotter.distances[max_points]

\* C18: with no override, past 2.5 s the command is throttle max(0.3, 0.5 -
\* deceleration), brake = deceleration, steer 0, so the throttle is never below
\* 0.3; up to 2.5 s it is throttle 0, brake 1.
C18_NoOverrideCommand ==
  applied /\ ~sim_data.AEB_Status /\ ~sim_data.egoCarStop /\ ~ctrlColl =>
    IF n > EngageSteps
      THEN /\ ctrl.throttle = IF NominalThrottle - sim_data.Deceleration > FloorThrottle
                                THEN NominalThrottle - sim_data.Deceleration
                                ELSE FloorThrottle
           /\ ctrl.throttle >= FloorThrottle
           /\ ctrl.brake = sim_data.Deceleration
           /\ ctrl.steer = 0
      ELSE ctrl.throttle = 0 /\ ctrl.brake = FullBrake

\* C18 witness: past 2.5 s, with no override and a deceleration of at least 1,
\* the throttle is the floor.
C18_Witness ==
  /\ applied
  /\ n > EngageSteps
  /\ ~sim_data.AEB_Status /\ ~sim_data.egoCarStop /\ ~ctrlColl
  /\ sim_data.Deceleration >= FullBrake
  /\ ctrl.throttle = FloorThrottle

\* C19: a call of receive_data makes at most 4 reads and is never stuck in one;
\* it returns either the decision decoded from 4 values, each unpacked from a read
\* of 8 bytes in this call, or the safe default.
C19_ReceiveBounded ==
  /\ rcv.i \in 0..NumFields
  /\ Len(rcv.values) <= rcv.i
  /\ Len(rcv.values) * FieldBytes <= rcv.bytes
  /\ pc = "recv" =>
       ENABLED (RecvFull \/ RecvShort \/ RecvEOF \/ RecvTimeout \/ RecvReset
                  \/ RecvDecode \/ RecvValueError \/ RecvIndexError)
  /\ pc \in {"act", "render"} =>
       /\ rx = "ok" => /\ rcv.i = NumFields
                       /\ Len(rcv.values) = NumFields
                       /\ sim_data = Decode(rcv.values)
       /\ rx \in {"timeout", "reset"} => rcv.i < NumFields /\ sim_data = SafeDefault
       /\ rx \in {"short", "invalid"} => rcv.i = NumFields /\ sim_data = SafeDefault

\* C19 witness: three fields were read in full and the fourth read was short: the
\* call has returned the default, not a decision built from three fields.
C19_Witness ==
  /\ pc = "act"
  /\ rx = "short"
  /\ Len(rcv.values) = NumFields - 1
  /\ rcv.values[1].v # 0
  /\ sim_data = SafeDefault

\* C20: when the peer sends whole 4-field messages, the four values a receive
\* decodes are fields 1 to 4, in order, of one message, also after an earlier
\* receive ended part-way through a message.
C20_FieldAlignment ==
  pc \in {"act", "render"} /\ rx = "ok" => \A k \in 1..NumFields : rcv.values[k].f = k

====
